---- MODULE Spec2Model ----
(***************************************************************************)
(* Model of tssc/step_implementers/unit_test/maven.py: the unit-test step  *)
(* implementer Maven._run_step and its helper find_reference_in_pom.       *)
(*                                                                         *)
(* Strings that are paths or XML text are kept as the sequence of their    *)
(* pieces between '/' characters: 'pom.xml' is <<"pom.xml">>, '/srv/app'   *)
(* is <<"", "srv", "app">>, '/' is <<"", "">> and '' is <<"">>.  Python's  *)
(* None, where a text is expected, is the empty sequence.                  *)
(***************************************************************************)
EXTENDS Integers, Sequences, FiniteSets, TLC

VARIABLES
    pc,                   \* position inside _run_step
    runtime_step_config,  \* the argument of _run_step
    pom,                  \* the descriptor file named by pom-file
    dirs,                 \* the directories of the filesystem
    test_results_dir,     \* local variable of _run_step
    mvn_exit,             \* exit codes of the sh.mvn invocations so far
    trace,                \* external calls made so far, in order
    inspected,            \* paths handed to os.path.isdir so far
    returned,             \* <<results>> once _run_step has returned
    raised                \* <<exception>> once _run_step has raised

vars == <<pc, runtime_step_config, pom, dirs, test_results_dir, mvn_exit,
          trace, inspected, returned, raised>>

\* Largest number of plugin entries in build/plugins of a descriptor.
MaxPlugins == 1

None == <<>>

(***************************************************************************)
(* Python values of the configuration keys.                                *)
(***************************************************************************)
PyTrue == "True"
PyFalse == "False"
FailOnNoTestsValues == {PyTrue, PyFalse, "'true'"}

PomFileValues ==
    { <<"pom.xml">>, <<"app", "pom.xml">>, <<"..", "pom.xml">>,
      <<"", "srv", "pom.xml">> }

DEFAULT_CONFIG ==
    [fail_on_no_tests |-> PyTrue, pom_file |-> <<"pom.xml">>]

\* The working directory of the process.
getcwd == <<"", "work">>

(***************************************************************************)
(* posixpath.                                                              *)
(***************************************************************************)
Front(s) == SubSeq(s, 1, Len(s) - 1)

Last(s) == s[Len(s)]

isabs(s) == Len(s) >= 2 /\ s[1] = ""

EndsWithSlash(s) == Len(s) >= 2 /\ Last(s) = ""

\* a + b for a string a that ends with '/'
ConcatAfterSlash(a, b) == Front(a) \o b

join(a, b) ==
    IF isabs(b) THEN b
    ELSE IF a = <<"">> THEN b
    ELSE IF EndsWithSlash(a) THEN ConcatAfterSlash(a, b)
    ELSE a \o b

RECURSIVE NormComps(_, _, _)
NormComps(comps, initial_slashes, new_comps) ==
    IF comps = <<>> THEN new_comps
    ELSE LET comp == Head(comps)
             rest == Tail(comps)
         IN IF comp \in {"", "."}
            THEN NormComps(rest, initial_slashes, new_comps)
            ELSE IF \/ comp # ".."
                    \/ (~initial_slashes /\ new_comps = <<>>)
                    \/ (new_comps # <<>> /\ Last(new_comps) = "..")
            THEN NormComps(rest, initial_slashes, Append(new_comps, comp))
            ELSE IF new_comps # <<>>
            THEN NormComps(rest, initial_slashes, Front(new_comps))
            ELSE NormComps(rest, initial_slashes, new_comps)

normpath(path) ==
    LET initial_slashes == isabs(path)
        new_comps == NormComps(path, initial_slashes, <<>>)
    IN IF initial_slashes
       THEN IF new_comps = <<>> THEN <<"", "">> ELSE <<"">> \o new_comps
       ELSE IF new_comps = <<>> THEN <<".">> ELSE new_comps

abspath(path) ==
    IF isabs(path) THEN normpath(path) ELSE normpath(join(getcwd, path))

RECURSIVE rstripSlashes(_)
rstripSlashes(s) ==
    IF EndsWithSlash(s) THEN rstripSlashes(Front(s)) ELSE s

dirname(p) ==
    IF Len(p) = 1 THEN <<"">>
    ELSE LET head == Front(p) \o <<"">>
         IN IF \A i \in DOMAIN head : head[i] = ""
            THEN head
            ELSE rstripSlashes(head)

(***************************************************************************)
(* The descriptor.  An element is [tag, text, kids]; text is None when the *)
(* element has no character data before its first child.  All elements are *)
(* in the namespace of the document root, which find_reference_in_pom      *)
(* detects and applies to every segment of its query.  The descriptor is   *)
(* [exists, plugins]: plugins holds, in document order, the children of    *)
(* each project/build/plugins/plugin element.                              *)
(***************************************************************************)
SUREFIRE == <<"maven-surefire-plugin">>

Leaf(tag, text) == [tag |-> tag, text |-> text, kids |-> <<>>]

GroupId == Leaf("groupId", <<"org.apache.maven.plugins">>)

ArtifactIds ==
    { Leaf("artifactId", SUREFIRE), Leaf("artifactId", <<"maven-jar-plugin">>) }

\* configuration elements: empty, and with a reportsDirectory that is a
\* relative path, an absolute path or an empty element
Configurations ==
    { [tag |-> "configuration", text |-> None, kids |-> <<>>],
      [tag |-> "configuration", text |-> <<" ">>,
       kids |-> << Leaf("reportsDirectory", <<"reports">>) >>],
      [tag |-> "configuration", text |-> None,
       kids |-> << Leaf("reportsDirectory", <<"", "srv", "out">>) >>],
      [tag |-> "configuration", text |-> <<" ">>,
       kids |-> << Leaf("reportsDirectory", None) >>] }

PluginChildren == {GroupId} \cup ArtifactIds \cup Configurations

\* A plugin entry: its children in any order, each tag at most once.
PluginEntries ==
    { k \in UNION { [1..n -> PluginChildren] : n \in 1..3 } :
        \A i, j \in DOMAIN k : i # j => k[i].tag # k[j].tag }

Poms ==
    { [exists |-> TRUE, plugins |-> ps] :
        ps \in UNION { [1..n -> PluginEntries] : n \in 0..MaxPlugins } }

NoPomFile == [exists |-> FALSE, plugins |-> <<>>]

(***************************************************************************)
(* xml.etree.ElementTree, as far as the two queries need it.               *)
(***************************************************************************)
RECURSIVE Flatten(_)
Flatten(ss) == IF ss = <<>> THEN <<>> ELSE Head(ss) \o Flatten(Tail(ss))

RECURSIVE MapKids(_)
MapKids(es) ==
    IF es = <<>> THEN <<>> ELSE <<Head(es).kids>> \o MapKids(Tail(es))

\* Element.findall(tag): the direct children with that tag
findall(kids, tag) == SelectSeq(kids, LAMBDA e : e.tag = tag)

\* "".join(e.itertext()) of an element without children
itertext(e) == IF e.text = None THEN <<"">> ELSE e.text

\* the predicate without its value: [maven:artifactId]
IsSurefirePlugin_AnyArtifactId(kids) ==
    \E i \in DOMAIN kids : kids[i].tag = "artifactId"

\* the predicate [maven:artifactId="maven-surefire-plugin"]
IsSurefirePlugin(kids) ==
    \E i \in DOMAIN kids :
        kids[i].tag = "artifactId" /\ itertext(kids[i]) = SUREFIRE

\* build/plugins/plugin/[artifactId="maven-surefire-plugin"]
SurefirePlugins(p) == SelectSeq(p.plugins, IsSurefirePlugin)

\* the elements the query selects, in document order; a path that ends
\* with '/' selects every child of the elements matched so far
iterfind(p, reference) ==
    IF reference = "maven-surefire-plugin"
    THEN Flatten(SurefirePlugins(p))
    ELSE findall(
             Flatten(MapKids(
                 findall(Flatten(SurefirePlugins(p)), "configuration"))),
             "reportsDirectory")

\* Element.find(path) followed by "None if result is None else result.text"
FirstText(found) == IF found = <<>> THEN None ELSE Head(found).text

find_reference_in_pom(p, reference) == FirstText(iterfind(p, reference))

(***************************************************************************)
(* The filesystem.  A directory is [isdir, entries]; a relative path is    *)
(* looked up from the working directory.                                   *)
(***************************************************************************)
Missing == [isdir |-> FALSE, entries |-> {}]
Empty == [isdir |-> TRUE, entries |-> {}]
NonEmpty == [isdir |-> TRUE, entries |-> {"TEST-AppTest.xml"}]
DirStates == {Missing, Empty, NonEmpty}

os_path_exists(p) == p.exists

os_path_isdir(fs, path) == fs[abspath(path)].isdir

os_listdir(fs, path) == fs[abspath(path)].entries

(***************************************************************************)
(* The pieces of Maven._run_step.                                          *)
(***************************************************************************)
\* the existence test left out
PomFileMissing_Never(p) == FALSE

PomFileMissing(p) == ~os_path_exists(p)

\* the None test left out
SurefirePluginMissing_Never(maven_surefire_plugin) == FALSE

SurefirePluginMissing(maven_surefire_plugin) == maven_surefire_plugin = None

DefaultResultsDir(pom_file) ==
    join(dirname(abspath(pom_file)), <<"target", "surefire-reports">>)

\* the override ignored
ResolveTestResultsDir_AlwaysDefault(pom_file, reports_dir) ==
    DefaultResultsDir(pom_file)

ResolveTestResultsDir(pom_file, reports_dir) ==
    IF reports_dir # None THEN reports_dir ELSE DefaultResultsDir(pom_file)

\* the exit code ignored
ErrorReturnCode_Never(exit_code) == exit_code < 0

ErrorReturnCode(exit_code) == exit_code # 0

\* the listing of the directory left out
NoTestsFound_IsdirOnly(fs, dir) == ~os_path_isdir(fs, dir)

NoTestsFound(fs, dir) ==
    ~os_path_isdir(fs, dir) \/ Cardinality(os_listdir(fs, dir)) = 0

\* "is not False" in place of "is not True"
TolerateNoTests_IsNotFalse(fail_on_no_tests) == fail_on_no_tests # PyFalse

TolerateNoTests(fail_on_no_tests) == fail_on_no_tests # PyTrue

FileUri(test_results_output_path) ==
    ConcatAfterSlash(<<"file:", "", "">>, test_results_output_path)

NoTestsResults(pom_file) ==
    ("result" :> [success |-> TRUE,
                  message |-> "unit test step run successfully, but no tests were found"])
    @@ ("options" :> (("pom-path" :> pom_file) @@ ("fail-on-no-tests" :> PyFalse)))

ReportsResults(pom_file, test_results_output_path) ==
    ("result" :> [success |-> TRUE,
                  message |-> "unit test step run successfully and junit reports were generated"])
    @@ ("options" :> ("pom-path" :> pom_file))
    @@ ("report-artifacts" :>
          << [name |-> "maven unit test results generated using junit",
              path |-> FileUri(test_results_output_path)] >>)

Exception(type, message) == [type |-> type, message |-> message]

\* the directories the build tool may write reports to
DirUniverse ==
    { abspath(DefaultResultsDir(f)) : f \in PomFileValues }
    \cup { abspath(<<"reports">>), abspath(<<"", "srv", "out">>) }

\* the filesystem after a run of the build tool that left the conventional
\* report directory of the descriptor in state sd and the others in state so
AfterMvn(pom_file, sd, so) ==
    [d \in DirUniverse |->
        IF d = abspath(DefaultResultsDir(pom_file)) THEN sd ELSE so]

(***************************************************************************)
(* State machine of one call of _run_step.                                 *)
(***************************************************************************)
Init ==
    /\ pc = "check_pom"
    /\ runtime_step_config \in
         [fail_on_no_tests : FailOnNoTestsValues, pom_file : PomFileValues]
    /\ pom \in Poms \cup {NoPomFile}
    /\ dirs = [d \in DirUniverse |-> Missing]
    /\ test_results_dir = None
    /\ mvn_exit = <<>>
    /\ trace = <<>>
    /\ inspected = <<>>
    /\ returned = <<>>
    /\ raised = <<>>

Raise(exception) ==
    /\ raised' = <<exception>>
    /\ pc' = "done"

\* lines 145-149
CheckPomExists ==
    /\ pc = "check_pom"
    /\ trace' = Append(trace, "os.path.exists")
    /\ IF PomFileMissing(pom)
       THEN Raise(Exception("ValueError", "Given pom file does not exist"))
       ELSE pc' = "check_plugin" /\ UNCHANGED raised
    /\ UNCHANGED <<runtime_step_config, pom, dirs, test_results_dir,
                   mvn_exit, inspected, returned>>

\* lines 151-153
CheckSurefirePlugin ==
    /\ pc = "check_plugin"
    /\ trace' = Append(trace, "find_reference_in_pom(maven-surefire-plugin)")
    /\ IF ~pom.exists
       THEN Raise(Exception("FileNotFoundError", "No such file or directory"))
       ELSE IF SurefirePluginMissing(
                   find_reference_in_pom(pom, "maven-surefire-plugin"))
       THEN Raise(Exception("ValueError",
                "Unit test dependency maven-surefire-plugin missing from POM."))
       ELSE pc' = "resolve" /\ UNCHANGED raised
    /\ UNCHANGED <<runtime_step_config, pom, dirs, test_results_dir,
                   mvn_exit, inspected, returned>>

\* lines 155-161
ResolveReportsDir ==
    /\ pc = "resolve"
    /\ trace' = Append(trace, "find_reference_in_pom(reportsDirectory)")
    /\ IF ~pom.exists
       THEN /\ Raise(Exception("FileNotFoundError", "No such file or directory"))
            /\ UNCHANGED test_results_dir
       ELSE /\ test_results_dir' =
                 ResolveTestResultsDir(runtime_step_config.pom_file,
                     find_reference_in_pom(pom, "reportsDirectory"))
            /\ pc' = "mvn"
            /\ UNCHANGED raised
    /\ UNCHANGED <<runtime_step_config, pom, dirs, mvn_exit, inspected,
                   returned>>

\* lines 163-171: the build tool runs to completion, exits with some code
\* and leaves the report directories in some state
InvokeMvn ==
    /\ pc = "mvn"
    /\ \E exit_code \in {0, 1}, sd \in DirStates, so \in DirStates :
          /\ mvn_exit' = Append(mvn_exit, exit_code)
          /\ dirs' = AfterMvn(runtime_step_config.pom_file, sd, so)
          /\ IF ErrorReturnCode(exit_code)
             THEN Raise(Exception("RuntimeError", "Error invoking mvn"))
             ELSE pc' = "classify" /\ UNCHANGED raised
    /\ trace' = Append(trace, "sh.mvn")
    /\ UNCHANGED <<runtime_step_config, pom, test_results_dir, inspected,
                   returned>>

\* lines 173-209
Classify ==
    /\ pc = "classify"
    /\ trace' = Append(trace, "os.path.isdir")
    /\ inspected' = Append(inspected, test_results_dir)
    /\ IF NoTestsFound(dirs, test_results_dir)
       THEN IF TolerateNoTests(runtime_step_config.fail_on_no_tests)
            THEN /\ returned' = <<NoTestsResults(runtime_step_config.pom_file)>>
                 /\ pc' = "done"
                 /\ UNCHANGED raised
            ELSE /\ Raise(Exception("RuntimeError",
                                    "Error: No unit tests defined"))
                 /\ UNCHANGED returned
       ELSE /\ returned' = <<ReportsResults(runtime_step_config.pom_file,
                                            test_results_dir)>>
            /\ pc' = "done"
            /\ UNCHANGED raised
    /\ UNCHANGED <<runtime_step_config, pom, dirs, test_results_dir,
                   mvn_exit>>

Next ==
    \/ CheckPomExists
    \/ CheckSurefirePlugin
    \/ ResolveReportsDir
    \/ InvokeMvn
    \/ Classify

Spec == Init /\ [][Next]_vars

(***************************************************************************)
(* Vocabulary of the properties, stated without the lookup code.           *)
(***************************************************************************)
PomMissingError == Exception("ValueError", "Given pom file does not exist")

PluginMissingError ==
    Exception("ValueError",
              "Unit test dependency maven-surefire-plugin missing from POM.")

MvnError == Exception("RuntimeError", "Error invoking mvn")

NoTestsError == Exception("RuntimeError", "Error: No unit tests defined")

\* plugin entry i of the descriptor has an artifactId child naming surefire
DeclaresSurefireAt(p, i) ==
    \E j \in DOMAIN p.plugins[i] :
        p.plugins[i][j] = Leaf("artifactId", SUREFIRE)

DeclaresSurefire(p) == \E i \in DOMAIN p.plugins : DeclaresSurefireAt(p, i)

\* positions <<plugin, child, grandchild>> of the reportsDirectory elements
\* inside the configuration of a surefire plugin entry
ReportsDirectoryPositions(p) ==
    { pos \in (DOMAIN p.plugins) \X (1..3) \X (1..1) :
        /\ DeclaresSurefireAt(p, pos[1])
        /\ pos[2] \in DOMAIN p.plugins[pos[1]]
        /\ p.plugins[pos[1]][pos[2]].tag = "configuration"
        /\ pos[3] \in DOMAIN p.plugins[pos[1]][pos[2]].kids
        /\ p.plugins[pos[1]][pos[2]].kids[pos[3]].tag = "reportsDirectory" }

Before(a, b) ==
    \/ a[1] < b[1]
    \/ a[1] = b[1] /\ a[2] < b[2]
    \/ a[1] = b[1] /\ a[2] = b[2] /\ a[3] <= b[3]

\* the override the descriptor configures: the text of its first
\* reportsDirectory element, None when there is none or it is empty
ConfiguredOverride(p) ==
    IF ReportsDirectoryPositions(p) = {} THEN None
    ELSE LET first == CHOOSE a \in ReportsDirectoryPositions(p) :
                          \A b \in ReportsDirectoryPositions(p) : Before(a, b)
         IN p.plugins[first[1]][first[2]].kids[first[3]].text

\* the directory the step is to inspect
ResolvedReportDir ==
    IF ConfiguredOverride(pom) # None
    THEN ConfiguredOverride(pom)
    ELSE abspath(runtime_step_config.pom_file
                 \o <<"..", "target", "surefire-reports">>)

ResolvedDirState == dirs[abspath(ResolvedReportDir)]

MvnSucceeded == mvn_exit = <<0>>

Finished == pc = "done"

HasArtifacts(r) == "report-artifacts" \in DOMAIN r

(***************************************************************************)
(* Properties.                                                             *)
(***************************************************************************)

\* C1: after a successful build-tool run that left the resolved report
\* directory non-empty, _run_step returns success=true with exactly one
\* report artifact whose path is 'file://' followed by the absolute path of
\* the resolved report directory, for default and overridden directories.
C1_ArtifactPathIsAbsolute ==
    (Finished /\ MvnSucceeded /\ ResolvedDirState = NonEmpty) =>
        /\ raised = <<>>
        /\ Len(returned) = 1
        /\ returned[1]["result"].success = TRUE
        /\ HasArtifacts(returned[1])
        /\ Len(returned[1]["report-artifacts"]) = 1
        /\ returned[1]["report-artifacts"][1].path =
              <<"file:", "">> \o abspath(ResolvedReportDir)

\* C2: after a successful build-tool run that left the resolved report
\* directory missing or empty, with fail-on-no-tests true, _run_step raises
\* the no-tests error and returns nothing.
C2_NoTestsIsFatalWhenFlagTrue ==
    (Finished /\ MvnSucceeded /\ ResolvedDirState \in {Missing, Empty}
        /\ runtime_step_config.fail_on_no_tests = PyTrue) =>
        raised = <<NoTestsError>> /\ returned = <<>>

C2_Witness ==
    /\ Finished /\ MvnSucceeded
    /\ runtime_step_config = DEFAULT_CONFIG
    /\ ResolvedDirState = Empty
    /\ raised = <<NoTestsError>>

\* C3: after a successful build-tool run that left the resolved report
\* directory missing or empty, with fail-on-no-tests false, _run_step
\* returns success=true, no report artifacts and options.fail-on-no-tests
\* false, for a missing and for an empty directory alike.
C3_NoTestsToleratedWhenFlagFalse ==
    (Finished /\ MvnSucceeded /\ ResolvedDirState \in {Missing, Empty}
        /\ runtime_step_config.fail_on_no_tests = PyFalse) =>
        /\ raised = <<>>
        /\ Len(returned) = 1
        /\ returned[1]["result"].success = TRUE
        /\ ~HasArtifacts(returned[1])
        /\ returned[1]["options"]["fail-on-no-tests"] = PyFalse

C3_Witness ==
    /\ Finished /\ MvnSucceeded
    /\ runtime_step_config.fail_on_no_tests = PyFalse
    /\ ResolvedDirState = Empty
    /\ ConfiguredOverride(pom) # None
    /\ Len(returned) = 1

\* C4: when the build tool exits non-zero, _run_step raises the execution
\* error whatever the report directories hold and whatever fail-on-no-tests
\* is; no directory is inspected and nothing is returned.
C4_NonZeroExitIsExecutionError ==
    (mvn_exit # <<>> /\ Last(mvn_exit) # 0) =>
        /\ Finished
        /\ raised = <<MvnError>>
        /\ returned = <<>>
        /\ inspected = <<>>

C4_Witness ==
    /\ mvn_exit = <<1>>
    /\ ResolvedDirState = NonEmpty
    /\ runtime_step_config.fail_on_no_tests = PyFalse
    /\ raised = <<MvnError>>

\* C5: when the descriptor file does not exist, _run_step raises the
\* descriptor-missing configuration error, whatever the other settings are.
C5_MissingPomIsConfigurationError ==
    ~pom.exists =>
        \/ pc = "check_pom"
        \/ /\ Finished
           /\ raised = <<PomMissingError>>
           /\ returned = <<>>
           /\ mvn_exit = <<>>

C5_Witness ==
    /\ Finished
    /\ ~pom.exists
    /\ runtime_step_config.fail_on_no_tests = PyFalse
    /\ raised = <<PomMissingError>>

\* C6: when the descriptor exists but has no plugin entry whose artifactId
\* is maven-surefire-plugin, _run_step raises the plugin-missing
\* configuration error.
C6_MissingPluginIsConfigurationError ==
    (pom.exists /\ ~DeclaresSurefire(pom)) =>
        \/ pc \in {"check_pom", "check_plugin"}
        \/ /\ Finished
           /\ raised = <<PluginMissingError>>
           /\ returned = <<>>
           /\ mvn_exit = <<>>

C6_Witness ==
    /\ Finished
    /\ pom.exists
    /\ pom.plugins # <<>>
    /\ ~DeclaresSurefire(pom)
    /\ raised = <<PluginMissingError>>

\* C7: the directory inspected after the build-tool run is the configured
\* reportsDirectory override when the descriptor has one, and otherwise
\* <directory of the descriptor>/target/surefire-reports; nothing else is
\* inspected.
C7_InspectedDirIsResolvedDir ==
    inspected # <<>> => inspected = <<ResolvedReportDir>>

C7_Witness ==
    /\ Finished
    /\ ConfiguredOverride(pom) = <<"reports">>
    /\ inspected = << <<"reports">> >>
    /\ dirs[abspath(<<"reports">>)] = Empty
    /\ dirs[abspath(DefaultResultsDir(runtime_step_config.pom_file))] = NonEmpty
    /\ Len(returned) = 1
    /\ ~HasArtifacts(returned[1])

\* C8: in every result _run_step returns, options.pom-path is the absolute
\* path of the pom, also when pom-file is configured as a relative path.
C8_PomPathIsAbsolute ==
    returned # <<>> =>
        returned[1]["options"]["pom-path"] =
            abspath(runtime_step_config.pom_file)

\* C9: the build tool is invoked at most once, only after the
\* descriptor-exists check and the surefire-plugin check were made and
\* passed, and the report directory is inspected only after the invocation
\* ended with exit code zero.
C9_InvocationOrder ==
    /\ Len(mvn_exit) <= 1
    /\ Len(SelectSeq(trace, LAMBDA e : e = "sh.mvn")) = Len(mvn_exit)
    /\ mvn_exit # <<>> =>
          /\ pom.exists
          /\ find_reference_in_pom(pom, "maven-surefire-plugin") # None
          /\ SubSeq(trace, 1, 4) =
                << "os.path.exists",
                   "find_reference_in_pom(maven-surefire-plugin)",
                   "find_reference_in_pom(reportsDirectory)",
                   "sh.mvn" >>
    /\ inspected # <<>> =>
          /\ mvn_exit = <<0>>
          /\ Len(trace) = 5
          /\ trace[5] = "os.path.isdir"
    /\ (\E i \in DOMAIN trace : trace[i] = "os.path.isdir") => inspected # <<>>

C9_Witness ==
    /\ Finished
    /\ mvn_exit = <<0>>
    /\ Len(inspected) = 1
    /\ Len(trace) = 5

\* C10: the surefire lookup is a presence check: once the plugin check has
\* run on an existing descriptor, it has failed exactly when build/plugins
\* has no plugin entry whose artifactId is maven-surefire-plugin, so a
\* descriptor that declares the plugin never fails the check.
C10_LookupIsPresenceCheck ==
    (pom.exists /\ pc \notin {"check_pom", "check_plugin"}) =>
        ((raised = <<PluginMissingError>>) <=> ~DeclaresSurefire(pom))

====
